---- MODULE Spec2Model ----
(***************************************************************************)
(* A model of finagent's bill-split flow (src/main.py, "Smart Ingest" and  *)
(* "Friends & Debts" pages) and of the receipt post-processing heuristic   *)
(* (src/src/core/llm.py).                                                  *)
(*                                                                         *)
(* One action is one user event together with the Streamlit script run(s)  *)
(* it triggers: the event handler, and the top-to-bottom re-execution of   *)
(* main() that renders the review section again.                           *)
(*                                                                         *)
(* Money.  The code computes in binary floating point; the model computes  *)
(* exactly, in integer units of 1/Cent of 0.01.  Cent is divisible by      *)
(* every head count the model reaches, so amount / num_people is exact.    *)
(* Text.  Names and words are tuples of one-character strings, so that     *)
(* difflib's similarity and str.lower()/capitalize() can be computed.      *)
(***************************************************************************)
EXTENDS Integers, Sequences, FiniteSets, TLC

(***************************************************************************)
(* Bounds of the model                                                     *)
(***************************************************************************)
\* at most this many rows in the transactions table
MaxTransactions == 1
\* at most this many friends added through the "Add New Friend" form
MaxAddedFriends == 1
\* at most this many debts added through the "Split a Bill" form
MaxAddedDebts == 1
MaxSubmissions == 2

(***************************************************************************)
(* Money                                                                   *)
(***************************************************************************)
\* 0.01 (the tolerance of main.py:869 and the floor of main.py:784) in model units
Cent == 60
Dollar == 100 * Cent

Max(a, b) == IF a >= b THEN a ELSE b
Abs(a) == IF a >= 0 THEN a ELSE 0 - a

(***************************************************************************)
(* Optional values (Python None) and dicts                                 *)
(***************************************************************************)
NoneNum == [some |-> FALSE, val |-> 0]
NoneMap == [some |-> FALSE, val |-> <<>>]
Some(v) == [some |-> TRUE, val |-> v]

\* Python truthiness of an Optional[float] and of an Optional[dict]
TruthyNum(o) == o.some /\ o.val # 0
TruthyMap(o) == o.some /\ DOMAIN o.val # {}

Range(s) == {s[i] : i \in DOMAIN s}

RECURSIVE SumOver(_, _)
SumOver(f, S) ==
    IF S = {} THEN 0
    ELSE LET x == CHOOSE y \in S : TRUE IN f[x] + SumOver(f, S \ {x})

\* sum(d.values())
SumValues(d) == SumOver(d, DOMAIN d)

\* d.get(k, default)
Get(d, k, default) == IF k \in DOMAIN d THEN d[k] ELSE default

(***************************************************************************)
(* Text                                                                    *)
(***************************************************************************)
LowerChar(c) ==
    CASE c = "A" -> "a" [] c = "B" -> "b" [] c = "O" -> "o" [] c = "L" -> "l"
      [] c = "R" -> "r" [] c = "D" -> "d" [] c = "E" -> "e" [] c = "G" -> "g"
      [] c = "S" -> "s" [] c = "U" -> "u" [] OTHER -> c

UpperChar(c) ==
    CASE c = "a" -> "A" [] c = "b" -> "B" [] c = "o" -> "O" [] c = "l" -> "L"
      [] c = "r" -> "R" [] c = "d" -> "D" [] c = "e" -> "E" [] c = "g" -> "G"
      [] c = "s" -> "S" [] c = "u" -> "U" [] OTHER -> c

\* str.lower()
Lower(w) == [i \in DOMAIN w |-> LowerChar(w[i])]

\* str.upper()
Upper(w) == [i \in DOMAIN w |-> UpperChar(w[i])]

\* str.capitalize(): first character upper case, the rest lower case
Capitalize(w) == [i \in DOMAIN w |-> IF i = 1 THEN UpperChar(w[i]) ELSE LowerChar(w[i])]

\* ord(c) for the characters the model uses
Ord(c) ==
    CASE c = "A" -> 65 [] c = "B" -> 66 [] c = "L" -> 76 [] c = "O" -> 79
      [] c = "R" -> 82 [] c = "a" -> 97 [] c = "b" -> 98 [] c = "d" -> 100
      [] c = "e" -> 101 [] c = "h" -> 104 [] c = "i" -> 105 [] c = "l" -> 108
      [] c = "o" -> 111 [] c = "p" -> 112 [] c = "r" -> 114 [] c = "s" -> 115
      [] c = "t" -> 116 [] c = "y" -> 121 [] OTHER -> 0

\* Python's str comparison u > w (by code point, a proper prefix is smaller)
RECURSIVE StrGreater(_, _)
StrGreater(u, w) ==
    IF u = <<>> THEN FALSE
    ELSE IF w = <<>> THEN TRUE
    ELSE IF Ord(Head(u)) # Ord(Head(w)) THEN Ord(Head(u)) > Ord(Head(w))
    ELSE StrGreater(Tail(u), Tail(w))

(***************************************************************************)
(* difflib.SequenceMatcher / get_close_matches (called at main.py:916)     *)
(***************************************************************************)
\* a[i..i+k-1] = b[j..j+k-1]
SameBlock(a, b, i, j, k) == \A d \in 0..(k - 1) : a[i + d] = b[j + d]

\* find_longest_match(alo, ahi, blo, bhi): the longest common block, the
\* earliest in a among the longest, the earliest in b among those; <<i, j, k>>
\* with k = 0 when there is none (positions 1-based, bounds inclusive)
CommonBlocks(a, b, alo, ahi, blo, bhi) ==
    {m \in (alo..ahi) \X (blo..bhi) \X (1..Len(a)) :
        /\ m[1] + m[3] - 1 <= ahi
        /\ m[2] + m[3] - 1 <= bhi
        /\ SameBlock(a, b, m[1], m[2], m[3])}

BetterBlock(m, n) ==
    \/ m[3] > n[3]
    \/ m[3] = n[3] /\ m[1] < n[1]
    \/ m[3] = n[3] /\ m[1] = n[1] /\ m[2] < n[2]

BestBlock(blocks, alo, blo) ==
    IF blocks = {} THEN <<alo, blo, 0>>
    ELSE CHOOSE m \in blocks : \A n \in blocks \ {m} : BetterBlock(m, n)

LongestMatch(a, b, alo, ahi, blo, bhi) ==
    BestBlock(CommonBlocks(a, b, alo, ahi, blo, bhi), alo, blo)

\* the total size of get_matching_blocks(): the longest block, then the
\* pieces to its left and to its right
RECURSIVE MatchCount(_, _, _, _, _, _)
\* the size of the block m and of the matching blocks on both sides of it
MatchCountAround(a, b, alo, ahi, blo, bhi, m) ==
    IF m[3] = 0 THEN 0
    ELSE m[3] + MatchCount(a, b, alo, m[1] - 1, blo, m[2] - 1)
              + MatchCount(a, b, m[1] + m[3], ahi, m[2] + m[3], bhi)

MatchCount(a, b, alo, ahi, blo, bhi) ==
    IF alo > ahi \/ blo > bhi THEN 0
    ELSE MatchCountAround(a, b, alo, ahi, blo, bhi,
                          LongestMatch(a, b, alo, ahi, blo, bhi))

Matches(a, b) == MatchCount(a, b, 1, Len(a), 1, Len(b))

\* SequenceMatcher.ratio() >= 0.6, with ratio = 2.0 * M / T (1.0 when T = 0)
RatioAtLeastCutoff(a, b) ==
    IF Len(a) + Len(b) = 0 THEN TRUE
    ELSE 10 * Matches(a, b) >= 3 * (Len(a) + Len(b))

\* ratio(x, word) > ratio(y, word), compared as fractions 2M/T
RatioGreater(x, y, word) ==
    Matches(x, word) * (Len(y) + Len(word)) > Matches(y, word) * (Len(x) + Len(word))

\* get_close_matches(word, possibilities, n=1, cutoff=0.6): the possibility
\* with the greatest (ratio, string) among those reaching the cutoff, as a
\* sequence of at most one element.  seq1 is the possibility, seq2 the word.
BeatsMatch(x, y, word) ==
    \/ RatioGreater(x, y, word)
    \/ ~RatioGreater(y, x, word) /\ StrGreater(x, y)

BestMatch(close, word) ==
    IF close = {} THEN <<>>
    ELSE <<CHOOSE x \in close : \A y \in close \ {x} : BeatsMatch(x, y, word)>>

get_close_matches(word, possibilities) ==
    BestMatch({x \in possibilities : RatioAtLeastCutoff(x, word)}, word)

(***************************************************************************)
(* Receipt post-processing heuristic (llm.py:239-298)                      *)
(*                                                                         *)
(* A context is the sequence of its whitespace-separated words; the words  *)
(* of the model carry no punctuation, so strip(',.!?;:') changes nothing.  *)
(***************************************************************************)
explicit_split_keywords ==
    {<<"s", "p", "l", "i", "t">>, <<"s", "h", "a", "r", "e", "d">>,
     <<"d", "i", "v", "i", "d", "e">>}

ordering_keywords ==
    {<<"o", "r", "d", "e", "r", "e", "d">>, <<"h", "a", "d">>, <<"g", "o", "t">>,
     <<"w", "a", "n", "t", "s">>, <<"p", "a", "i", "d">>}

exclude_words ==
    {<<"i">>, <<"m", "e">>, <<"m", "y">>, <<"h", "e">>, <<"s", "h", "e">>,
     <<"t", "h", "e", "y">>, <<"w", "e">>, <<"t", "h", "e">>, <<"a">>, <<"a", "n", "d">>,
     <<"o", "r">>, <<"o", "t", "h", "e", "r">>, <<"d", "r", "i", "n", "k", "s">>,
     <<"w", "e", "r", "e">>, <<"b", "y">>, <<"w", "i", "t", "h">>, <<"f", "o", "r">>,
     <<"a", "t">>, <<"w", "a", "s">>, <<"i", "s">>, <<"i", "t">>, <<"t", "h", "i", "s">>,
     <<"t", "h", "a", "t">>}

W_by == <<"b", "y">>
W_were == <<"w", "e", "r", "e">>

\* " ".join(words): the context as one string
RECURSIVE Join(_)
Join(ws) ==
    IF ws = <<>> THEN <<>>
    ELSE IF Len(ws) = 1 THEN ws[1]
    ELSE ws[1] \o <<" ">> \o Join(Tail(ws))

\* Python's `kw in text` on strings
IsSubstring(kw, text) ==
    \E i \in 1..(Len(text) - Len(kw) + 1) : SubSeq(text, i, i + Len(kw) - 1) = kw

\* any(word in context_lower for word in explicit_split_keywords)   (llm.py:249)
has_explicit_split(context) ==
    \E kw \in explicit_split_keywords : IsSubstring(kw, Lower(Join(context)))

\* the guarded append of llm.py:270-272 and 282-284
AppendName(person_names, w) ==
    IF \E k \in DOMAIN person_names : Lower(person_names[k]) = Lower(Capitalize(w))
    THEN person_names
    ELSE Append(person_names, Capitalize(w))

\* one iteration of the loop of llm.py:263-285, at (1-based) position i
ScanWord(words, i, person_names) ==
    LET afterPattern1 ==
            IF /\ words[i] \in ordering_keywords
               /\ i > 1
               /\ words[i - 1] \notin exclude_words
               /\ Len(words[i - 1]) > 1
            THEN AppendName(person_names, words[i - 1])
            ELSE person_names
    IN  IF /\ words[i] = W_by
           /\ i > 1
           /\ i < Len(words)
           /\ (words[i - 1] \in ordering_keywords \/ words[i - 1] = W_were)
           /\ words[i + 1] \notin exclude_words
           /\ Len(words[i + 1]) > 1
        THEN AppendName(afterPattern1, words[i + 1])
        ELSE afterPattern1

RECURSIVE ScanFrom(_, _, _)
ScanFrom(words, i, person_names) ==
    IF i > Len(words) THEN person_names
    ELSE ScanFrom(words, i + 1, ScanWord(words, i, person_names))

\* person_names after the loop   (llm.py:255-288)
DetectPersons(context) ==
    LET words == [i \in DOMAIN context |-> Lower(context[i])]
    IN  ScanFrom(words, 1, <<>>)

\* the mark-as-split rule of llm.py:293
MarksSplit(context) ==
    has_explicit_split(context) \/ Len(DetectPersons(context)) >= 2

\* extract_receipt_data's result for the model's answer `llm` and the user's
\* context (<<>> is "no context": `if transaction and context and not is_split`)
PostProcess(llm, context) ==
    IF context # <<>> /\ ~llm.is_split /\ MarksSplit(context)
    THEN [llm EXCEPT !.is_split = TRUE, !.split_with = DetectPersons(context)]
    ELSE llm

(***************************************************************************)
(* Split resolution at review time (main.py:759-792)                       *)
(***************************************************************************)
\* num_people = len(transaction.split_with) + 1   (main.py:763, 772, 789)
num_people(tx) == Len(tx.split_with) + 1

per_person_wholeCents(tx) ==
    ((tx.amount + num_people(tx) * Cent - 1) \div (num_people(tx) * Cent)) * Cent

\* per_person = transaction.amount / num_people   (main.py:764, 790)
per_person(tx) == tx.amount \div num_people(tx)

\* the equal split of main.py:763-766 and 789-792
EqualSplit(tx) ==
    [split_display |-> [n \in Range(tx.split_with) |-> per_person(tx)],
     my_share |-> per_person(tx),
     itemized |-> <<>>]

gst_per_person_noOwner(tx) ==
    IF TruthyNum(tx.gst) /\ tx.gst.val > 0 THEN tx.gst.val \div Len(tx.split_with) ELSE 0

\* gst_per_person, 0 when `transaction.gst and transaction.gst > 0` is false
gst_per_person(tx) ==
    IF TruthyNum(tx.gst) /\ tx.gst.val > 0 THEN tx.gst.val \div num_people(tx) ELSE 0

\* split_display after main.py:769-779: a copy of split_amounts with the GST
\* share added to every entry
ItemAllocations(tx) ==
    [n \in DOMAIN tx.split_amounts.val |-> tx.split_amounts.val[n] + gst_per_person(tx)]

ExceedsTolerance_loose(others_total, amount) == 10 * others_total > 15 * amount

\* others_total > transaction.amount * 1.05   (main.py:787)
ExceedsTolerance(others_total, amount) == 100 * others_total > 105 * amount

Remainder_unfloored(amount, others_total) == amount - others_total

\* my_share = max(0.01, transaction.amount - others_total)   (main.py:784)
Remainder(amount, others_total) == Max(Cent, amount - others_total)

\* the item-based branch, main.py:767-792
ItemSplit(tx) ==
    LET others_total == SumValues(ItemAllocations(tx))
    IN  IF ExceedsTolerance(others_total, tx.amount)
        THEN [EqualSplit(tx) EXCEPT !.itemized = ItemAllocations(tx)]
        ELSE [split_display |-> ItemAllocations(tx),
              my_share |-> Remainder(tx.amount, others_total),
              itemized |-> ItemAllocations(tx)]

NoSplitAmounts_noneOnly(tx) == ~tx.split_amounts.some

\* `not transaction.split_amounts or len(transaction.split_amounts) == 0`
NoSplitAmounts(tx) == ~TruthyMap(tx.split_amounts)

\* split_display and my_share as computed by main.py:759-792; itemized is
\* split_display as it stood after main.py:779, before the 5% check
ResolveSplit(tx) == IF NoSplitAmounts(tx) THEN EqualSplit(tx) ELSE ItemSplit(tx)

WithinTolerance_inclusive(total_split, amount) == Abs(total_split - amount) <= Cent

\* difference < 0.01   (main.py:859-860, 869, 879)
WithinTolerance(total_split, amount) == Abs(total_split - amount) < Cent

ShowsSplitReview_anySplit(tx) == tx.is_split

\* `if transaction.is_split and transaction.split_with:`   (main.py:753)
ShowsSplitReview(tx) == tx.is_split /\ tx.split_with # <<>>

(***************************************************************************)
(* Inputs: what the language model may answer, what the user may type      *)
(***************************************************************************)
N_Al == <<"A", "l">>
N_Bob == <<"B", "o", "b">>
N_al == <<"a", "l">>
N_Rob == <<"R", "o", "b">>

DEMO_USER_ID == "demo-user"
OTHER_USER_ID == "other-user"

\* a Transaction (models.py:5-23); of its fields the split flow reads
\* merchant, amount, is_split, split_with, split_amounts and gst.  A None
\* split_with and an empty one are both <<>>: the code only tests its truth.
Tx(amount, is_split, split_with, split_amounts, gst) ==
    [merchant |-> "Cafe", amount |-> amount, is_split |-> is_split,
     split_with |-> split_with, split_amounts |-> split_amounts, gst |-> gst]

NoTransaction == [some |-> FALSE, val |-> Tx(0, FALSE, <<>>, NoneMap, NoneNum)]

\* a dict with the given keys and values
Dict1(k, v) == [n \in {k} |-> v]
Dict2(k1, v1, k2, v2) == [n \in {k1, k2} |-> IF n = k1 THEN v1 ELSE v2]

\* answers of the language model used by the flow specification
LLMOutputs ==
    {Tx(100 * Dollar, FALSE, <<>>, NoneMap, NoneNum),
     Tx(100 * Dollar, TRUE, <<>>, NoneMap, NoneNum),
     Tx(90 * Dollar, TRUE, <<N_Al, N_Bob>>, NoneMap, NoneNum),
     Tx(100 * Dollar, TRUE, <<N_Al>>, Some(Dict1(N_Al, 30 * Dollar)), Some(10 * Dollar)),
     Tx(100 * Dollar, TRUE, <<N_Al, N_Bob>>, Some(Dict1(N_Al, 30 * Dollar)), NoneNum)}

\* receipt contexts typed by the user; <<>> is an empty context
Contexts ==
    {<<>>,
     <<<<"s", "p", "l", "i", "t">>, <<"t", "h", "e">>, <<"b", "i", "l", "l">>>>,
     <<<<"a", "l">>, <<"h", "a", "d">>, <<"t", "e", "a">>>>,
     <<<<"a", "l">>, <<"h", "a", "d">>, <<"B", "o", "b">>, <<"p", "a", "i", "d">>>>,
     <<<<"p", "a", "i", "d">>, <<"b", "y">>, <<"b", "o", "b">>, <<"s", "h", "a", "r", "e", "d">>>>}

\* names typed into the "Add New Friend" form
FriendFormNames == {N_al, N_Rob}

\* values the user may type into a participant's amount input whose default
\* is d, and into the owner's (min_value=0.0, main.py:823 and 844)
EditChoices(d) == {0, d, d + Cent}
UserEditChoices(d) == {v \in {d - Cent, d} : v >= 0}

\* values the user may leave in the form's Amount field (min_value=0.01, main.py:963)
FormAmounts(tx) == {tx.amount, tx.amount + Dollar}

\* values the user may leave in the form's Merchant field (main.py:962)
FormMerchants(tx) == {tx.merchant, "Bistro"}

(***************************************************************************)
(* State                                                                   *)
(***************************************************************************)
VARIABLES
    app_mode,               \* the page shown: "ingest" or "friends"
    parsed_transaction,     \* st.session_state['parsed_transaction'], optional
    split_valid,            \* st.session_state['split_valid'] (absent reads as True)
    person_friend_mapping,  \* st.session_state['person_friend_mapping'], as a
                            \*   sequence of <<detected_name, final_friend>>
    split_display,          \* st.session_state['split_display']
    existing_friends,       \* st.session_state['existing_friends'], name -> id
    split_review,           \* the last run rendered the split breakdown
    proposed,               \* split_display / my_share computed by that run
    edited_amounts,         \* values of the amount_input_<name> widgets
    user_amount,            \* value of the amount_input_user widget
    friend_select,          \* values of the friend_select_<name> widgets
    transactions,           \* table transactions
    friends,                \* table friends
    debts,                  \* table debts
    friends_added,          \* rows inserted by the "Add New Friend" form
    debts_added,            \* rows inserted by the "Split a Bill" form
    lastOp,                 \* the last user event: a parse, a save, a cancel or another
    lastSave,               \* what the last step did, if it was a Save
    cache_file,             \* .cache/exchange_rates.json: absent, or one rate
                            \*   table with its base and its timestamp
    now,                    \* datetime.now(), in hours
    last_fetch,             \* per base currency, when its table was last
                            \*   fetched from the rate source (-1: never)
    lastCall,               \* the last call of convert_currency and what it did
    lastRemoved,            \* the last call of remove_outliers and its result
    lastAverages,           \* the last call of calculate_population_averages
    lastSpending,           \* the last call of calculate_user_spending_by_category
    lastComparison          \* the last call of compare_user_to_population and
                            \*   of the two rankings of its result

sessionVars == <<parsed_transaction, split_valid, person_friend_mapping,
                 split_display, existing_friends>>
widgetVars == <<split_review, proposed, edited_amounts, user_amount, friend_select>>
dbVars == <<transactions, friends, debts, friends_added, debts_added>>
flowVars == <<app_mode, sessionVars, widgetVars, dbVars, lastOp, lastSave>>
convVars == <<cache_file, now, last_fetch, lastCall>>
analyticsVars == <<lastRemoved, lastAverages, lastSpending, lastComparison>>
serviceVars == <<convVars, analyticsVars>>
vars == <<flowVars, serviceVars>>

transaction == parsed_transaction.val

NoProposal == [split_display |-> <<>>, my_share |-> 0, itemized |-> <<>>]

NoSave ==
    [outcome |-> "none", tx |-> NoTransaction.val, review |-> FALSE,
     valid |-> TRUE, shares |-> <<>>, owner |-> 0, selects |-> <<>>,
     mapping |-> <<>>, existing |-> <<>>, friends_before |-> <<>>, tx_rows |-> <<>>, friend_rows |-> <<>>,
     debt_rows |-> <<>>]

(***************************************************************************)
(* One script run of the review section (main.py:701-955)                  *)
(***************************************************************************)
\* friends_res.data of main.py:893; the except branch of main.py:896-899
\* leaves no rows
FetchFriends(rows, fetch_ok) ==
    IF fetch_ok THEN SelectSeq(rows, LAMBDA f : f.user_id = DEMO_USER_ID) ELSE <<>>

\* {f['name']: f['id'] for f in friends_res.data}: the last row of a name wins
FriendIds(rows) ==
    [nm \in {rows[i].name : i \in DOMAIN rows} |->
        rows[CHOOSE i \in DOMAIN rows :
                /\ rows[i].name = nm
                /\ \A j \in DOMAIN rows : j > i => rows[j].name # nm].id]

\* the selectbox options of main.py:920: a friend's name, or "Add new"
FriendOption(name) == [add |-> FALSE, name |-> name]
AddNewOption(detected_name) == [add |-> TRUE, name |-> detected_name]

\* default_index of main.py:916-921
OptionAt(detected_name, matches) ==
    IF matches # <<>> THEN FriendOption(matches[1]) ELSE AddNewOption(detected_name)

DefaultOption(detected_name, friend_names) ==
    OptionAt(detected_name, get_close_matches(detected_name, friend_names))

\* the value a selectbox returns: its widget state if that is still one of
\* the options, else the default
SelectedOption(detected_name, friend_names, wSelect) ==
    IF /\ detected_name \in DOMAIN wSelect
       /\ (wSelect[detected_name].add \/ wSelect[detected_name].name \in friend_names)
    THEN wSelect[detected_name]
    ELSE DefaultOption(detected_name, friend_names)

FinalFriend_detected(detected_name, option) == detected_name

\* final_friend of main.py:932-935
FinalFriend(detected_name, option) == IF option.add THEN detected_name ELSE option.name

\* What one run of main() leaves behind for the candidate ptx, the widget
\* states wAmounts / wUser / wSelect (empty where a widget has no state yet)
\* and the friends table `rows`.  When the split breakdown is not rendered,
\* its widgets lose their state and the session keys keep their old values.
\* the keys and widget values a run of the split review ends with, given
\* the resolver's result r, the widgets' values ea / ua / sel and the
\* fetched friends ef   (main.py:859-879, 932-945)
ReviewResult(tx, r, ea, ua, ef, sel) ==
    [split_review |-> TRUE,
     proposed |-> r,
     edited_amounts |-> ea,
     user_amount |-> ua,
     friend_select |-> sel,
     split_valid |-> WithinTolerance(SumValues(ea) + ua, tx.amount),
     person_friend_mapping |->
         [i \in DOMAIN tx.split_with |->
             <<tx.split_with[i], FinalFriend(tx.split_with[i], sel[tx.split_with[i]])>>],
     split_display |-> ea,
     existing_friends |-> ef]

\* the widgets of main.py:814-850 and 906-929: a widget with state returns
\* it, a widget without state returns its default
ReviewWidgets(tx, r, ef, wAmounts, wUser, wSelect) ==
    ReviewResult(tx, r,
                 [n \in Range(tx.split_with) |->
                     Get(wAmounts, n, Get(r.split_display, n, 0))],
                 IF wUser.some THEN wUser.val ELSE r.my_share,
                 ef,
                 [n \in Range(tx.split_with) |-> SelectedOption(n, DOMAIN ef, wSelect)])

Render(ptx, wAmounts, wUser, wSelect, rows, fetch_ok) ==
    IF ptx.some /\ ShowsSplitReview(ptx.val)
    THEN ReviewWidgets(ptx.val, ResolveSplit(ptx.val),
                       FriendIds(FetchFriends(rows, fetch_ok)),
                       wAmounts, wUser, wSelect)
    ELSE [split_review |-> FALSE,
          proposed |-> NoProposal,
          edited_amounts |-> <<>>,
          user_amount |-> 0,
          friend_select |-> <<>>,
          split_valid |-> split_valid,
          person_friend_mapping |-> person_friend_mapping,
          split_display |-> split_display,
          existing_friends |-> existing_friends]

\* the state after a run that ended with result R
Rendered(R) ==
    /\ split_review' = R.split_review
    /\ proposed' = R.proposed
    /\ edited_amounts' = R.edited_amounts
    /\ user_amount' = R.user_amount
    /\ friend_select' = R.friend_select
    /\ split_valid' = R.split_valid
    /\ person_friend_mapping' = R.person_friend_mapping
    /\ split_display' = R.split_display
    /\ existing_friends' = R.existing_friends

\* a run of the review section with the widgets' present state
Rerender(ptx, rows, fetch_ok) ==
    Render(ptx, edited_amounts,
           IF split_review THEN Some(user_amount) ELSE NoneNum,
           friend_select, rows, fetch_ok)

(***************************************************************************)
(* Currency conversion (src/src/core/currency_converter.py)                *)
(*                                                                         *)
(* Currency codes are tuples of characters.  A rate is an integer number   *)
(* of 1/RateUnit; the amounts converted are multiples of RateUnit, so      *)
(* amount * rate is exact.  Reading and writing the cache file succeed.    *)
(***************************************************************************)
\* timedelta(hours=24)
CACHE_DURATION == 24
\* the rate 1.0
RateUnit == 100
\* the clock stops at MaxHours and advances by TickHours
MaxHours == 24
TickHours == 12

C_USD == <<"U", "S", "D">>
C_usd == <<"u", "s", "d">>
C_EUR == <<"E", "U", "R">>
C_eur == <<"e", "u", "r">>
C_SGD == <<"S", "G", "D">>
C_BOB == <<"B", "O", "B">>

\* the base currencies the rate source knows
Bases == {C_USD, C_EUR}

\* data['rates'] of the rate source for a base: no entry for the base
\* itself; one table carries a rate of 0
SourceRates(base) ==
    IF base = C_USD
    THEN (C_EUR :> 90 @@ C_SGD :> 135)
    ELSE (C_USD :> 110 @@ C_SGD :> 0)

\* a rate table {'base': base, **rates}, or None
NoTable == [some |-> FALSE, base |-> <<>>, rates |-> <<>>]
Table(base, rates) == [some |-> TRUE, base |-> base, rates |-> rates]

\* the cache file: absent, or {'timestamp': time, 'rates': table}
NoCache == [some |-> FALSE, time |-> 0, table |-> NoTable]
CacheOf(table, time) == [some |-> TRUE, time |-> time, table |-> table]

\* _load_cached_rates(): the table of the file if the file exists and is
\* younger than CACHE_DURATION
load_cached_rates(file, time) ==
    IF file.some /\ time - file.time < CACHE_DURATION THEN file.table ELSE NoTable

\* what the request of currency_converter.py:77-96 can end in
\* (an answer, an answer without 'rates' or with another base, an exception)
Responses == {"ok", "malformed", "error"}

\* get_exchange_rates after _load_cached_rates returned `cached`
RatesGiven(base_currency, cached, file, time, resp) ==
    IF cached.some /\ cached.base = base_currency
    THEN [table |-> cached, file |-> file, contacted |-> FALSE, fetched |-> FALSE]
    ELSE IF resp = "ok"
    THEN [table |-> Table(base_currency, SourceRates(base_currency)),
          file |-> CacheOf(Table(base_currency, SourceRates(base_currency)), time),
          contacted |-> TRUE, fetched |-> TRUE]
    ELSE IF resp = "malformed"
    THEN [table |-> NoTable, file |-> file, contacted |-> TRUE, fetched |-> FALSE]
    ELSE [table |-> cached, file |-> file, contacted |-> TRUE, fetched |-> FALSE]

\* get_exchange_rates(base_currency): the table returned, the cache file
\* afterwards, whether the rate source was contacted and whether it answered
get_exchange_rates(base_currency, file, time, resp) ==
    RatesGiven(base_currency, load_cached_rates(file, time), file, time, resp)

\* rates.get(to_currency.upper()) and `if not to_rate`: 0 stands for None
RateFor(table, code) == Get(table.rates, code, 0)

\* convert_currency after get_exchange_rates returned r
ConvertGiven(amount, to_currency, r) ==
    [result |-> IF ~r.table.some \/ RateFor(r.table, Upper(to_currency)) = 0
                THEN NoneNum
                ELSE Some((amount * RateFor(r.table, Upper(to_currency))) \div RateUnit),
     file |-> r.file, cache_read |-> TRUE, contacted |-> r.contacted,
     fetched |-> r.fetched]

SameCurrency_caseSensitive(from_currency, to_currency) == from_currency = to_currency

\* from_currency.upper() == to_currency.upper()
SameCurrency(from_currency, to_currency) == Upper(from_currency) = Upper(to_currency)

\* convert_currency(amount, from_currency, to_currency), called with the
\* cache file `file` at time `time`, the request ending in `resp`
convert_currency(amount, from_currency, to_currency, file, time, resp) ==
    IF SameCurrency(from_currency, to_currency)
    THEN [result |-> Some(amount), file |-> file, cache_read |-> FALSE,
          contacted |-> FALSE, fetched |-> FALSE]
    ELSE ConvertGiven(amount, to_currency,
                      get_exchange_rates(Upper(from_currency), file, time, resp))

\* arguments of the calls
ConvertAmounts == {2 * RateUnit}
FromCurrencies == {C_USD, C_usd, C_EUR}
ToCurrencies == {C_USD, C_EUR, C_eur, C_SGD, C_BOB}

NoCall ==
    [called |-> FALSE, amount |-> 0, from |-> <<>>, to |-> <<>>, resp |-> "ok",
     result |-> NoneNum, cache_read |-> FALSE, contacted |-> FALSE,
     file_before |-> NoCache, fetch_before |-> -1, time |-> 0]

(***************************************************************************)
(* Spending analytics (src/core/spending_analytics.py).  Amounts are whole *)
(* cents.  The bounds q1 - 1.5 * iqr and q3 + 1.5 * iqr are compared after *)
(* doubling both sides, which keeps the comparison exact.                  *)
(***************************************************************************)
\* the position of x in an ordered list: after the values not above it
InsertSorted(x, s) ==
    SubSeq(s, 1, Cardinality({i \in DOMAIN s : s[i] <= x}))
        \o <<x>>
        \o SubSeq(s, Cardinality({i \in DOMAIN s : s[i] <= x}) + 1, Len(s))

\* sorted(data)
RECURSIVE sorted(_)
sorted(data) ==
    IF data = <<>> THEN <<>>
    ELSE InsertSorted(data[Len(data)], sorted(SubSeq(data, 1, Len(data) - 1)))

WithinBounds_exclusive(x, q1, q3) ==
    2 * q1 - 3 * (q3 - q1) < 2 * x /\ 2 * x < 2 * q3 + 3 * (q3 - q1)

\* lower_bound <= x <= upper_bound
WithinBounds(x, q1, q3) ==
    2 * q1 - 3 * (q3 - q1) <= 2 * x /\ 2 * x <= 2 * q3 + 3 * (q3 - q1)

\* [x for x in data if lower_bound <= x <= upper_bound]
FilterBounds(data, q1, q3) == SelectSeq(data, LAMBDA x : WithinBounds(x, q1, q3))

\* remove_outliers once the data is sorted: q1 and q3 are the values at
\* the (0-based) positions n // 4 and 3 * n // 4
OutliersRemoved(data, sorted_data) ==
    FilterBounds(data,
                 sorted_data[(Len(sorted_data) \div 4) + 1],
                 sorted_data[((3 * Len(sorted_data)) \div 4) + 1])

\* remove_outliers(data)
remove_outliers(data) ==
    IF Len(data) < 4 THEN data ELSE OutliersRemoved(data, sorted(data))

\* the lists remove_outliers is called with
MaxOutlierLen == 5
OutlierValues == {8, 10, 11, 12, 13, 1000}
OutlierInputs == UNION {[1..n -> OutlierValues] : n \in 0..MaxOutlierLen}

NoRemoved == [called |-> FALSE, data |-> <<>>, result |-> <<>>]

\* time_period_days: int = 30
time_period_days == 30
\* `if len(category_spending) < 5: continue`
MIN_USERS == 5

\* a row of the transactions table; age is days between its date and today
Row(user_id, category, amount, currency, age) ==
    [user_id |-> user_id, category |-> category, amount |-> amount,
     currency |-> currency, age |-> age]

\* .gte("date", cutoff_date.isoformat()): response.data
InWindow(table) == SelectSeq(table, LAMBDA t : t.age <= time_period_days)

\* exclude_user_id = None
NoUser == ""

\* the rows the loop does not skip
Included(data, exclude_user_id) ==
    SelectSeq(data, LAMBDA t : ~(exclude_user_id # NoUser /\ t.user_id = exclude_user_id))

Converted_orNothing(prev, t, out) ==
    [amounts |-> Append(prev.amounts, IF out.result.some THEN out.result.val ELSE 0),
     file |-> out.file,
     fetched |-> IF out.fetched THEN prev.fetched \cup {Upper(t.currency)}
                 ELSE prev.fetched]

\* `amount = converted if converted else amount`, and the cache file after
\* the call
Converted(prev, t, out) ==
    [amounts |-> Append(prev.amounts,
                        IF out.result.some /\ out.result.val # 0
                        THEN out.result.val ELSE t.amount),
     file |-> out.file,
     fetched |-> IF out.fetched THEN prev.fetched \cup {Upper(t.currency)}
                 ELSE prev.fetched]

\* lines 112-119 for one row
ConvertStep(prev, t, native_currency, time, resp) ==
    IF t.currency = native_currency
    THEN [amounts |-> Append(prev.amounts, t.amount), file |-> prev.file,
          fetched |-> prev.fetched]
    ELSE Converted(prev, t,
                   convert_currency(t.amount, t.currency, native_currency,
                                    prev.file, time, resp))

\* the amounts of the rows in native currency, in row order; every request
\* made during one call ends in resp
RECURSIVE ConvertAll(_, _, _, _, _)
ConvertAll(rows, native_currency, file, time, resp) ==
    IF rows = <<>>
    THEN [amounts |-> <<>>, file |-> file, fetched |-> {}]
    ELSE ConvertStep(ConvertAll(SubSeq(rows, 1, Len(rows) - 1), native_currency,
                                file, time, resp),
                     rows[Len(rows)], native_currency, time, resp)

AppendNew(seq, x) == IF x \in Range(seq) THEN seq ELSE Append(seq, x)

\* the keys of user_category_spending, in insertion order
RECURSIVE UserOrder(_)
UserOrder(rows) ==
    IF rows = <<>> THEN <<>>
    ELSE AppendNew(UserOrder(SubSeq(rows, 1, Len(rows) - 1)), rows[Len(rows)].user_id)

GroupedBy_user(rows, user_id, category) ==
    {i \in DOMAIN rows : rows[i].user_id = user_id}

\* the rows added up in user_category_spending[user_id][category]
GroupedBy(rows, user_id, category) ==
    {i \in DOMAIN rows : rows[i].user_id = user_id /\ rows[i].category = category}

\* user_category_spending[user_id][category]
UserCategoryTotal(rows, amounts, user_id, category) ==
    SumOver(amounts, GroupedBy(rows, user_id, category))

\* category_spending: the totals of the users who have the category
CategoryUsers(rows, users, category) ==
    SelectSeq(users, LAMBDA u : \E i \in DOMAIN rows :
                                   rows[i].user_id = u /\ rows[i].category = category)

category_spending(rows, amounts, users, category) ==
    [k \in DOMAIN CategoryUsers(rows, users, category) |->
        UserCategoryTotal(rows, amounts, CategoryUsers(rows, users, category)[k],
                          category)]

EnoughUsers_four(spending) == Len(spending) >= 4

\* not `len(category_spending) < 5`
EnoughUsers(spending) == Len(spending) >= MIN_USERS

\* round(total / n, 2) in cents; the float decides a tie either way
RoundedMean(total, n, half_up) ==
    IF 2 * (total % n) < n THEN total \div n
    ELSE IF 2 * (total % n) > n THEN (total \div n) + 1
    ELSE IF half_up THEN (total \div n) + 1 ELSE total \div n

\* round(statistics.mean(cleaned_spending), 2)
MeanOf(cleaned_spending, half_up) ==
    RoundedMean(SumValues(cleaned_spending), Len(cleaned_spending), half_up)

\* category_averages of lines 127-154
category_averages(rows, amounts, users, half_up) ==
    [c \in {c \in {rows[i].category : i \in DOMAIN rows} :
              /\ EnoughUsers(category_spending(rows, amounts, users, c))
              /\ remove_outliers(category_spending(rows, amounts, users, c)) # <<>>}
       |-> MeanOf(remove_outliers(category_spending(rows, amounts, users, c)), half_up)]

\* calculate_population_averages on response.data = data, after the loop
\* of lines 105-125 turned the rows into amounts
AveragesGiven(rows, conv, half_up) ==
    [rows |-> rows, amounts |-> conv.amounts, file |-> conv.file,
     fetched |-> conv.fetched,
     result |-> category_averages(rows, conv.amounts, UserOrder(rows), half_up)]

\* calculate_population_averages(supabase, 30, native_currency, exclude_user_id)
calculate_population_averages(table, native_currency, exclude_user_id, file, time, resp, half_up) ==
    AveragesGiven(Included(InWindow(table), exclude_user_id),
                  ConvertAll(Included(InWindow(table), exclude_user_id),
                             native_currency, file, time, resp),
                  half_up)

\* the transactions tables the averages are computed from: Food rows of
\* the first nf users, Travel rows of the first nt users, and one more row
PopUsers == <<"u1", "u2", "u3", "u4", "u5", "u6">>
FoodAmounts ==
    {<<1000, 1200, 1100, 1300, 100000, 1250>>, <<1000, 1001, 1000, 1001, 1000, 1001>>}
TravelAmounts == <<5000, 5000, 7001, 5000, 5000>>
FoodRows(amounts, nf) == [k \in 1..nf |-> Row(PopUsers[k], "Food", amounts[k], C_SGD, 0)]
TravelRows(nt) == [k \in 1..nt |-> Row(PopUsers[k], "Travel", TravelAmounts[k], C_SGD, 1)]
ExtraRows ==
    {<<>>,
     <<Row("u1", "Food", 200, C_USD, 2)>>,
     <<Row("u5", "Travel", 5000, C_SGD, 31)>>,
     <<Row("u6", "Travel", 5000, C_SGD, 30)>>}
Populations ==
    {FoodRows(a, nf) \o TravelRows(nt) \o e :
        a \in FoodAmounts, nf \in {4, 5, 6}, nt \in {0, 3, 4, 5}, e \in ExtraRows}
ExcludedUsers == {NoUser, "u1", "u6"}

NoAverages ==
    [called |-> FALSE, table |-> <<>>, exclude_user_id |-> NoUser, resp |-> "ok",
     file_before |-> NoCache, rows |-> <<>>, amounts |-> <<>>, result |-> <<>>]

\* a row whose category is null, and a row without the key
NULL == "null"
MISSING == "missing"

\* transaction.get("category", "Other"): the default stands in for a
\* missing key only
CategoryKey(t) == IF t.category = MISSING THEN "Other" ELSE t.category

\* .eq("user_id", user_id) of the query of lines 37-41
OfUser(rows, user_id) == SelectSeq(rows, LAMBDA t : t.user_id = user_id)

\* category_totals of lines 50-62
category_totals(rows, amounts) ==
    [c \in {CategoryKey(rows[i]) : i \in DOMAIN rows} |->
        SumOver(amounts, {i \in DOMAIN rows : CategoryKey(rows[i]) = c})]

\* calculate_user_spending_by_category after the conversions
SpendingGiven(rows, conv) ==
    [rows |-> rows, amounts |-> conv.amounts, file |-> conv.file,
     fetched |-> conv.fetched, result |-> category_totals(rows, conv.amounts)]

\* calculate_user_spending_by_category(supabase, user_id, 30, native_currency)
calculate_user_spending_by_category(table, user_id, native_currency, file, time, resp) ==
    SpendingGiven(OfUser(InWindow(table), user_id),
                  ConvertAll(OfUser(InWindow(table), user_id), native_currency,
                             file, time, resp))

\* the tables the user's spending is computed from: two rows and any of
\* five more
OptionalRows ==
    <<Row("u1", "Food", 200, C_USD, 1),
      Row("u1", NULL, 300, C_SGD, 2),
      Row("u1", MISSING, 400, C_SGD, 3),
      Row("u1", "Travel", 700, C_SGD, 31),
      Row("u1", "Other", 50, C_SGD, 30)>>
UserTables ==
    {<<Row("u1", "Food", 1000, C_SGD, 0), Row("u2", "Food", 500, C_SGD, 0)>>
        \o SelectSeq(OptionalRows, LAMBDA t : t \in S) : S \in SUBSET Range(OptionalRows)}
SpendingUsers == {"u1", "u2", "u3"}

NoSpending ==
    [called |-> FALSE, table |-> <<>>, user_id |-> NoUser, resp |-> "ok",
     file_before |-> NoCache, rows |-> <<>>, amounts |-> <<>>, result |-> <<>>]

\* round(num / den, ...) for den > 0; the float decides a tie either way
RoundedQuotient(num, den, half_up) ==
    IF num >= 0 THEN RoundedMean(num, den, half_up)
    ELSE 0 - RoundedMean(0 - num, den, half_up)

DollarDiff_reversed(user_amt, pop_amt) == pop_amt - user_amt

\* dollar_diff = round(user_amt - pop_amt, 2), in cents
DollarDiff(user_amt, pop_amt) == user_amt - pop_amt

\* percentage_diff = round((dollar_diff / pop_amt) * 100, 1), in tenths of
\* a percent
PercentDiff(dollar_diff, pop_amt, half_up) ==
    RoundedQuotient(1000 * dollar_diff, pop_amt, half_up)

\* the entry lines 227-230 store for a category
Entry(category, user_amt, pop_amt, half_up) ==
    [category |-> category,
     pct |-> PercentDiff(DollarDiff(user_amt, pop_amt), pop_amt, half_up),
     dollar |-> DollarDiff(user_amt, pop_amt)]

\* `if pop_amt == 0: continue`, pop_amt = population_avg.get(category, 0)
Skipped(population_avg, category) == Get(population_avg, category, 0) = 0

\* compare_user_to_population: the comparison dict as the list of its
\* items; `order` lists all_categories in the order the set is iterated
RECURSIVE compare_user_to_population(_, _, _, _)
compare_user_to_population(user_spending, population_avg, order, half_up) ==
    IF order = <<>> THEN <<>>
    ELSE IF Skipped(population_avg, order[1])
    THEN compare_user_to_population(user_spending, population_avg, Tail(order), half_up)
    ELSE <<Entry(order[1], Get(user_spending, order[1], 0),
                 population_avg[order[1]], half_up)>>
           \o compare_user_to_population(user_spending, population_avg, Tail(order),
                                         half_up)

\* list.sort(key=pct): a stable insertion, ascending
InsertByPct(e, s) ==
    SubSeq(s, 1, Cardinality({i \in DOMAIN s : s[i].pct <= e.pct}))
        \o <<e>>
        \o SubSeq(s, Cardinality({i \in DOMAIN s : s[i].pct <= e.pct}) + 1, Len(s))

RECURSIVE SortedByPct(_)
SortedByPct(items) ==
    IF items = <<>> THEN <<>>
    ELSE InsertByPct(items[Len(items)], SortedByPct(SubSeq(items, 1, Len(items) - 1)))

\* list.sort(key=pct, reverse=True): stable, descending
InsertByPctReverse(e, s) ==
    SubSeq(s, 1, Cardinality({i \in DOMAIN s : s[i].pct >= e.pct}))
        \o <<e>>
        \o SubSeq(s, Cardinality({i \in DOMAIN s : s[i].pct >= e.pct}) + 1, Len(s))

RECURSIVE SortedByPctReverse(_)
SortedByPctReverse(items) ==
    IF items = <<>> THEN <<>>
    ELSE InsertByPctReverse(items[Len(items)],
                            SortedByPctReverse(SubSeq(items, 1, Len(items) - 1)))

Truncated_whole(items, limit) == items

\* a_list[:limit] for limit >= 0
Truncated(items, limit) == SubSeq(items, 1, IF limit < Len(items) THEN limit ELSE Len(items))

\* the list comprehension of lines 251-255
Overspending(comparison) == SelectSeq(comparison, LAMBDA e : e.pct > 0)

\* get_top_overspending_categories(comparison, limit)
get_top_overspending_categories(comparison, limit) ==
    Truncated(SortedByPctReverse(Overspending(comparison)), limit)

\* get_top_underspending_categories(comparison, limit)
get_top_underspending_categories(comparison, limit) ==
    Truncated(SortedByPct(SelectSeq(comparison, LAMBDA e : e.pct < 0)), limit)

\* the aggregates compared: per category no entry, or one of a few totals
MaxLimit == 3
CompareCategories == {"Food", "Travel", "Shopping"}
UserTotals == {8000, 11000, 15000, 20000}
PopulationTotals == {0, 10000, 16000}
Aggregates(values) ==
    UNION {[S -> values] : S \in SUBSET CompareCategories}
CategoryOrders ==
    {o \in [1..3 -> CompareCategories] : Range(o) = CompareCategories}

NoComparison ==
    [called |-> FALSE, user_spending |-> <<>>, population_avg |-> <<>>,
     comparison |-> <<>>, limit |-> 0, over |-> <<>>, under |-> <<>>]


ServiceInit ==
    /\ cache_file = NoCache
    /\ now = 0
    /\ last_fetch = [b \in Bases |-> -1]
    /\ lastCall = NoCall
    /\ lastRemoved = NoRemoved
    /\ lastAverages = NoAverages
    /\ lastSpending = NoSpending
    /\ lastComparison = NoComparison

(***************************************************************************)
(* Initial state: nothing parsed, an empty session, and a friends table    *)
(* that holds one row of another user                                      *)
(***************************************************************************)
Init ==
    /\ app_mode = "ingest"
    /\ parsed_transaction = NoTransaction
    /\ split_valid = TRUE
    /\ person_friend_mapping = <<>>
    /\ split_display = <<>>
    /\ existing_friends = <<>>
    /\ split_review = FALSE
    /\ proposed = NoProposal
    /\ edited_amounts = <<>>
    /\ user_amount = 0
    /\ friend_select = <<>>
    /\ transactions = <<>>
    /\ friends = <<[id |-> 1, user_id |-> OTHER_USER_ID, name |-> N_Al]>>
    /\ debts = <<>>
    /\ friends_added = 0
    /\ debts_added = 0
    /\ lastOp = "init"
    /\ lastSave = NoSave
    /\ ServiceInit

(***************************************************************************)
(* Smart Ingest: parsing                                                   *)
(***************************************************************************)
\* A parse stores the candidate and calls st.rerun() before the review
\* section is reached (main.py:555-558, 602-605): the review widgets are not
\* rendered in that run and start the next one from their defaults.
StoreParsed(tx, fetch_ok) ==
    /\ app_mode = "ingest"
    /\ Len(transactions) < MaxTransactions
    /\ parsed_transaction' = Some(tx)
    /\ Rendered(Render(Some(tx), <<>>, NoneNum, <<>>, friends, fetch_ok))
    /\ lastSave' = NoSave
    /\ UNCHANGED <<serviceVars, app_mode, dbVars>>

\* "Parse Text" with a single transaction as the answer (main.py:541-558)
ParseText ==
    \E tx \in LLMOutputs, fetch_ok \in BOOLEAN :
        /\ StoreParsed(tx, fetch_ok)
        /\ lastOp' = "parse_text"

\* "Analyze Receipt" (main.py:590-607, llm.py:123-307)
AnalyzeReceipt ==
    \E llm \in LLMOutputs, context \in Contexts, fetch_ok \in BOOLEAN :
        /\ StoreParsed(PostProcess(llm, context), fetch_ok)
        /\ lastOp' = "analyze_receipt"

(***************************************************************************)
(* Smart Ingest: editing the review                                        *)
(***************************************************************************)
\* typing into amount_input_<name>   (main.py:821-829)
EditAmount ==
    \E n \in DOMAIN edited_amounts, fetch_ok \in BOOLEAN :
      \E v \in EditChoices(Get(proposed.split_display, n, 0)) :
        /\ app_mode = "ingest"
        /\ split_review
        /\ Len(transactions) < MaxTransactions
        /\ v # edited_amounts[n]
        /\ Rendered(Render(parsed_transaction, [edited_amounts EXCEPT ![n] = v],
                           Some(user_amount), friend_select, friends, fetch_ok))
        /\ lastOp' = "other"
        /\ lastSave' = NoSave
        /\ UNCHANGED <<serviceVars, app_mode, parsed_transaction, dbVars>>

\* typing into amount_input_user   (main.py:842-850)
EditUserAmount ==
    \E fetch_ok \in BOOLEAN :
      \E v \in UserEditChoices(proposed.my_share) :
        /\ app_mode = "ingest"
        /\ split_review
        /\ Len(transactions) < MaxTransactions
        /\ v # user_amount
        /\ Rendered(Render(parsed_transaction, edited_amounts, Some(v),
                           friend_select, friends, fetch_ok))
        /\ lastOp' = "other"
        /\ lastSave' = NoSave
        /\ UNCHANGED <<serviceVars, app_mode, parsed_transaction, dbVars>>

\* choosing an option of friend_select_<name>   (main.py:923-929)
SelectFriend ==
    \E n \in DOMAIN friend_select, fetch_ok \in BOOLEAN :
      \E option \in {FriendOption(f) : f \in DOMAIN existing_friends} \cup {AddNewOption(n)} :
        /\ app_mode = "ingest"
        /\ split_review
        /\ Len(transactions) < MaxTransactions
        /\ option # friend_select[n]
        /\ Rendered(Render(parsed_transaction, edited_amounts, Some(user_amount),
                           [friend_select EXCEPT ![n] = option], friends, fetch_ok))
        /\ lastOp' = "other"
        /\ lastSave' = NoSave
        /\ UNCHANGED <<serviceVars, app_mode, parsed_transaction, dbVars>>

Cancel_keepsCandidate ==
    \E fetch_ok \in BOOLEAN :
      \E R \in {Rerender(parsed_transaction, friends, fetch_ok)} :
            /\ app_mode = "ingest"
            /\ parsed_transaction.some
            /\ parsed_transaction' = parsed_transaction
            /\ split_valid' = R.split_valid
            /\ person_friend_mapping' = R.person_friend_mapping
            /\ split_display' = R.split_display
            /\ existing_friends' = R.existing_friends
            /\ split_review' = FALSE
            /\ proposed' = NoProposal
            /\ edited_amounts' = <<>>
            /\ user_amount' = 0
            /\ friend_select' = <<>>
            /\ lastOp' = "cancel"
            /\ lastSave' = NoSave
            /\ UNCHANGED <<serviceVars, app_mode, dbVars>>

\* "Cancel" (main.py:1064-1069): the run renders the review, the handler
\* deletes the candidate and reruns; the next run renders no review.
Cancel ==
    \E fetch_ok \in BOOLEAN :
      \E R \in {Rerender(parsed_transaction, friends, fetch_ok)} :
            /\ app_mode = "ingest"
            /\ parsed_transaction.some
            /\ parsed_transaction' = NoTransaction
            /\ split_valid' = R.split_valid
            /\ person_friend_mapping' = R.person_friend_mapping
            /\ split_display' = R.split_display
            /\ existing_friends' = R.existing_friends
            /\ split_review' = FALSE
            /\ proposed' = NoProposal
            /\ edited_amounts' = <<>>
            /\ user_amount' = 0
            /\ friend_select' = <<>>
            /\ lastOp' = "cancel"
            /\ lastSave' = NoSave
            /\ UNCHANGED <<serviceVars, app_mode, dbVars>>

(***************************************************************************)
(* Smart Ingest: "Save to Database" (main.py:988-1062)                     *)
(***************************************************************************)
TransactionRow(amount, merchant) ==
    [user_id |-> DEMO_USER_ID, amount |-> amount, merchant |-> merchant]

FriendRow(id, name) == [id |-> id, user_id |-> DEMO_USER_ID, name |-> name]

\* the row of main.py:1038-1044
DebtRow(friend_id, friend_amount, merchant) ==
    [user_id |-> DEMO_USER_ID, friend_id |-> friend_id, amount |-> friend_amount,
     description |-> <<"Split", merchant, "bill">>, is_paid |-> FALSE]

\* The loop of main.py:1023-1045 from the i-th item of the mapping on.
\* c holds what the loop reads (mapping, split_display, existing_friends,
\* amount, merchant, failAt); written rows accumulate in fr and db; w counts
\* the inserts executed so far in this Save.  Insert number c.failAt raises,
\* which ends the loop (the only handler is the except of main.py:1061).
RECURSIVE WriteDebts(_, _, _, _, _)
WriteDebts(c, i, fr, db, w) ==
    IF i > Len(c.mapping) THEN [friends |-> fr, debts |-> db, ok |-> TRUE]
    ELSE LET detected_name == c.mapping[i][1]
             friend_name == c.mapping[i][2]
             known == friend_name \in DOMAIN c.existing_friends
             friend_id == IF known THEN c.existing_friends[friend_name] ELSE Len(fr) + 1
             fr2 == IF known THEN fr ELSE Append(fr, FriendRow(friend_id, friend_name))
             w2 == IF known THEN w ELSE w + 1
             friend_amount == Get(c.split_display, detected_name,
                                  c.amount \div (Len(c.mapping) + 1))
         IN  IF ~known /\ c.failAt = w + 1
             THEN [friends |-> fr, debts |-> db, ok |-> FALSE]
             ELSE IF c.failAt = w2 + 1
             THEN [friends |-> fr2, debts |-> db, ok |-> FALSE]
             ELSE WriteDebts(c, i + 1, fr2,
                             Append(db, DebtRow(friend_id, friend_amount, c.merchant)),
                             w2 + 1)

SaveBlocked_onceOnly(tx, valid) == (tx.is_split /\ ~valid) \/ transactions # <<>>

\* the gate of main.py:993-997
SaveBlocked(tx, valid) == tx.is_split /\ ~valid

\* the rows a Save run leaves in the tables once the gate is passed
\* (main.py:999-1045); ok is FALSE when an insert raised.  Insert 1 is the
\* transaction's.
SaveWrites(tx, R, amount, merchant, failAt) ==
    IF failAt = 1
    THEN [transactions |-> transactions, friends |-> friends, debts |-> debts, ok |-> FALSE]
    ELSE LET txs == Append(transactions, TransactionRow(amount, merchant))
         IN  IF tx.is_split /\ R.person_friend_mapping # <<>>
             THEN LET c == [mapping |-> R.person_friend_mapping,
                            split_display |-> R.split_display,
                            existing_friends |-> R.existing_friends,
                            amount |-> amount, merchant |-> merchant, failAt |-> failAt]
                      out == WriteDebts(c, 1, friends, debts, 1)
                  IN  [transactions |-> txs, friends |-> out.friends,
                       debts |-> out.debts, ok |-> out.ok]
             ELSE [transactions |-> txs, friends |-> friends, debts |-> debts, ok |-> TRUE]

\* the rows of s2 that follow those of s1
Added(s1, s2) == SubSeq(s2, Len(s1) + 1, Len(s2))

SaveRecord(outcome, tx, R, out) ==
    [outcome |-> outcome, tx |-> tx, review |-> R.split_review,
     valid |-> R.split_valid, shares |-> R.edited_amounts, owner |-> R.user_amount,
     selects |-> R.friend_select, mapping |-> R.person_friend_mapping,
     existing |-> R.existing_friends, friends_before |-> friends,
     tx_rows |-> Added(transactions, out.transactions),
     friend_rows |-> Added(friends, out.friends),
     debt_rows |-> Added(debts, out.debts)]

\* "Save to Database" pressed while the table holds fewer than `limit`
\* transactions; the handler itself looks at no stored row
SaveUpTo(limit) ==
    \E fetch_ok \in BOOLEAN, failAt \in 0..(1 + 2 * Len(person_friend_mapping)) :
      \E amount \in FormAmounts(transaction), merchant \in FormMerchants(transaction) :
        /\ app_mode = "ingest"
        /\ parsed_transaction.some
        /\ Len(transactions) < limit
        /\ UNCHANGED <<serviceVars, app_mode, friends_added, debts_added>>
        /\ lastOp' = "save"
        /\ \E R \in {Rerender(parsed_transaction, friends, fetch_ok)} :
             IF SaveBlocked(transaction, R.split_valid)
             THEN \* st.error and st.stop()
                  /\ Rendered(R)
                  /\ UNCHANGED <<parsed_transaction, transactions, friends, debts>>
                  /\ lastSave' = SaveRecord("blocked", transaction, R,
                                            [transactions |-> transactions,
                                             friends |-> friends, debts |-> debts])
             ELSE \E out \in {SaveWrites(transaction, R, amount, merchant, failAt)} :
                  /\ transactions' = out.transactions
                  /\ friends' = out.friends
                  /\ debts' = out.debts
                  /\ IF out.ok
                     THEN \* main.py:1051-1059, then a run that renders no review
                          /\ parsed_transaction' = NoTransaction
                          /\ split_valid' = R.split_valid
                          /\ person_friend_mapping' = R.person_friend_mapping
                          /\ split_display' = R.split_display
                          /\ existing_friends' = <<>>
                          /\ split_review' = FALSE
                          /\ proposed' = NoProposal
                          /\ edited_amounts' = <<>>
                          /\ user_amount' = 0
                          /\ friend_select' = <<>>
                          /\ lastSave' = SaveRecord("saved", transaction, R, out)
                     ELSE \* main.py:1061-1062: st.error, no rerun
                          /\ Rendered(R)
                          /\ UNCHANGED parsed_transaction
                          /\ lastSave' = SaveRecord("error", transaction, R, out)

Save == SaveUpTo(MaxTransactions)

(***************************************************************************)
(* Navigation and the Friends & Debts page                                 *)
(***************************************************************************)
\* the sidebar radio of main.py:44: leaving Smart Ingest drops the review
\* widgets' state, coming back renders the review from its defaults
SwitchPage ==
    \E fetch_ok \in BOOLEAN :
        /\ app_mode' = IF app_mode = "ingest" THEN "friends" ELSE "ingest"
        /\ IF app_mode = "ingest"
           THEN Rendered(Render(NoTransaction, <<>>, NoneNum, <<>>, <<>>, TRUE))
           ELSE Rendered(Render(parsed_transaction, <<>>, NoneNum, <<>>, friends, fetch_ok))
        /\ lastOp' = "other"
        /\ lastSave' = NoSave
        /\ UNCHANGED <<serviceVars, parsed_transaction, dbVars>>

\* "Add Friend" (main.py:1178-1195); the insert may raise
AddFriend ==
    \E name \in FriendFormNames, ok \in BOOLEAN :
        /\ app_mode = "friends"
        /\ friends_added < MaxAddedFriends
        /\ IF ok
           THEN /\ friends' = Append(friends, FriendRow(Len(friends) + 1, name))
                /\ friends_added' = friends_added + 1
                /\ lastOp' = "other"
           ELSE /\ UNCHANGED <<friends, friends_added>>
                /\ lastOp' = "other"
        /\ lastSave' = NoSave
        /\ UNCHANGED <<serviceVars, app_mode, sessionVars, widgetVars, transactions, debts, debts_added>>

\* values of the "Split a Bill" form: Amount ($) has min_value 0.01
\* (main.py:1145), Description may be left empty (main.py:1146)
DebtFormAmounts == {Cent}
DebtFormDescriptions == {<<>>, <<"Lunch">>}

\* "Add Debt" (main.py:1139-1163): the form offers the user's friends; the
\* insert needs amount > 0 and a description, and may raise
AddDebt ==
    \E f \in DOMAIN friends, amount \in DebtFormAmounts,
       desc \in DebtFormDescriptions, ok \in BOOLEAN :
        /\ app_mode = "friends"
        /\ debts_added < MaxAddedDebts
        /\ friends[f].user_id = DEMO_USER_ID
        /\ IF amount > 0 /\ desc # <<>> /\ ok
           THEN /\ debts' = Append(debts,
                                  [user_id |-> DEMO_USER_ID, friend_id |-> friends[f].id,
                                   amount |-> amount, description |-> desc,
                                   is_paid |-> FALSE])
                /\ debts_added' = debts_added + 1
           ELSE UNCHANGED <<debts, debts_added>>
        /\ lastOp' = "other"
        /\ lastSave' = NoSave
        /\ UNCHANGED <<serviceVars, app_mode, sessionVars, widgetVars, transactions, friends, friends_added>>

SettleDebt_remove(rows, d) == SubSeq(rows, 1, d - 1) \o SubSeq(rows, d + 1, Len(rows))

\* update({"is_paid": True}).eq("id", debt['id'])   (main.py:1131)
SettleDebt(rows, d) == [rows EXCEPT ![d].is_paid = TRUE]

\* "Mark as Paid" on one of the user's unpaid debts (main.py:1116-1135);
\* the update may raise
MarkPaid ==
    \E d \in DOMAIN debts, ok \in BOOLEAN :
        /\ app_mode = "friends"
        /\ debts[d].user_id = DEMO_USER_ID
        /\ ~debts[d].is_paid
        /\ debts' = IF ok THEN SettleDebt(debts, d) ELSE debts
        /\ lastOp' = "mark_paid"
        /\ lastSave' = NoSave
        /\ UNCHANGED <<serviceVars, app_mode, sessionVars, widgetVars, transactions, friends,
                       friends_added, debts_added>>

Next ==
    \/ ParseText
    \/ AnalyzeReceipt
    \/ EditAmount
    \/ EditUserAmount
    \/ SelectFriend
    \/ Cancel
    \/ Save
    \/ SwitchPage
    \/ AddFriend
    \/ AddDebt
    \/ MarkPaid

Spec == Init /\ [][Next]_vars

(***************************************************************************)
(* The resolver on its own: the review of every candidate of              *)
(* ResolverInputs is rendered once                                         *)
(***************************************************************************)
ResolverAmounts == {50 * Dollar, 90 * Dollar, 100 * Dollar}
ResolverShares == {30 * Dollar, 48 * Dollar, 100 * Dollar, 105 * Dollar, 105 * Dollar + Cent}
ResolverGst == {NoneNum, Some(0), Some(0 - 10 * Dollar), Some(10 * Dollar)}
ResolverSplitAmounts ==
    {NoneMap, Some(<<>>)}
      \cup {Some(f) : f \in UNION {[S -> ResolverShares] : S \in SUBSET {N_Al, N_Bob} \ {{}}}}

ResolverInputs ==
    {Tx(a, TRUE, sw, sa, g) :
        a \in ResolverAmounts, sw \in {<<N_Al>>, <<N_Al, N_Bob>>},
        sa \in ResolverSplitAmounts, g \in ResolverGst}

\* the state between the two runs of a parse: the candidate is stored
\* (main.py:555) and the rerun that renders its review has not started
InitResolver ==
    /\ app_mode = "ingest"
    /\ parsed_transaction \in {Some(tx) : tx \in ResolverInputs}
    /\ split_valid = TRUE
    /\ person_friend_mapping = <<>>
    /\ split_display = <<>>
    /\ existing_friends = <<>>
    /\ split_review = FALSE
    /\ proposed = NoProposal
    /\ edited_amounts = <<>>
    /\ user_amount = 0
    /\ friend_select = <<>>
    /\ transactions = <<>>
    /\ friends = <<[id |-> 1, user_id |-> OTHER_USER_ID, name |-> N_Al]>>
    /\ debts = <<>>
    /\ friends_added = 0
    /\ debts_added = 0
    /\ lastOp = "parse_text"
    /\ lastSave = NoSave
    /\ ServiceInit

\* the run that renders the review of the stored candidate (main.py:701-955)
ReviewRun ==
    /\ parsed_transaction.some
    /\ ~split_review
    /\ Rendered(Render(parsed_transaction, <<>>, NoneNum, <<>>, friends, TRUE))
    /\ UNCHANGED <<serviceVars, app_mode, parsed_transaction, dbVars, lastOp, lastSave>>

SpecResolver == InitResolver /\ [][ReviewRun]_vars

(***************************************************************************)
(* Submitting a reviewed split more than once: the review is rendered and  *)
(* Save is pressed up to MaxSubmissions times                              *)
(***************************************************************************)
ResubmitInputs ==
    {Tx(90 * Dollar, TRUE, <<N_Al, N_Bob>>, NoneMap, NoneNum),
     Tx(100 * Dollar, TRUE, <<N_Al>>, Some(Dict1(N_Al, 30 * Dollar)), NoneNum)}

InitResubmit == InitResolver /\ transaction \in ResubmitInputs

Resubmit == SaveUpTo(MaxSubmissions)

NextResubmit == ReviewRun \/ Resubmit

SpecResubmit == InitResubmit /\ [][NextResubmit]_vars

(***************************************************************************)
(* The converter on its own: calls of convert_currency as time passes      *)
(***************************************************************************)
\* one call of convert_currency
ConvertCall ==
    \E amount \in ConvertAmounts, from \in FromCurrencies, to \in ToCurrencies,
       resp \in Responses :
      \E out \in {convert_currency(amount, from, to, cache_file, now, resp)} :
        /\ cache_file' = out.file
        /\ last_fetch' = IF out.fetched
                         THEN [last_fetch EXCEPT ![Upper(from)] = now]
                         ELSE last_fetch
        /\ lastCall' = [called |-> TRUE, amount |-> amount, from |-> from, to |-> to,
                        resp |-> resp, result |-> out.result,
                        cache_read |-> out.cache_read, contacted |-> out.contacted,
                        file_before |-> cache_file,
                        fetch_before |-> last_fetch[Upper(from)], time |-> now]
        /\ UNCHANGED <<now, analyticsVars, flowVars>>

\* time passes
Tick ==
    /\ now + TickHours <= MaxHours
    /\ now' = now + TickHours
    /\ lastCall' = NoCall
    /\ UNCHANGED <<cache_file, last_fetch, analyticsVars, flowVars>>

NextConverter == ConvertCall \/ Tick

SpecConverter == Init /\ [][NextConverter]_vars

(***************************************************************************)
(* The analytics on their own: calls of remove_outliers and of             *)
(* calculate_population_averages                                           *)
(***************************************************************************)
\* the analytics functions are explored one call at a time
NoAnalyticsCallYet ==
    /\ ~lastRemoved.called /\ ~lastAverages.called
    /\ ~lastSpending.called /\ ~lastComparison.called

\* remove_outliers called on its own, once
RemoveOutliersCall ==
    /\ NoAnalyticsCallYet
    /\ \E data \in OutlierInputs :
        /\ lastRemoved' = [called |-> TRUE, data |-> data,
                           result |-> remove_outliers(data)]
        /\ lastAverages' = NoAverages
        /\ UNCHANGED <<convVars, lastSpending, lastComparison, flowVars>>

\* calculate_population_averages called with SGD as the native currency, once
PopulationAveragesCall ==
    /\ NoAnalyticsCallYet
    /\ \E table \in Populations, exclude_user_id \in ExcludedUsers,
          resp \in Responses, half_up \in BOOLEAN :
        \E out \in {calculate_population_averages(table, C_SGD, exclude_user_id,
                                                  cache_file, now, resp, half_up)} :
          /\ lastAverages' = [called |-> TRUE, table |-> table,
                              exclude_user_id |-> exclude_user_id, resp |-> resp,
                              file_before |-> cache_file, rows |-> out.rows,
                              amounts |-> out.amounts, result |-> out.result]
          /\ cache_file' = out.file
          /\ last_fetch' = [b \in Bases |-> IF b \in out.fetched THEN now
                                            ELSE last_fetch[b]]
          /\ lastRemoved' = NoRemoved
          /\ lastCall' = NoCall
          /\ UNCHANGED <<now, lastSpending, lastComparison, flowVars>>

\* calculate_user_spending_by_category called with SGD as the native
\* currency, once
UserSpendingCall ==
    /\ NoAnalyticsCallYet
    /\ \E table \in UserTables, user_id \in SpendingUsers, resp \in Responses :
        \E out \in {calculate_user_spending_by_category(table, user_id, C_SGD,
                                                        cache_file, now, resp)} :
          /\ lastSpending' = [called |-> TRUE, table |-> table, user_id |-> user_id,
                              resp |-> resp, file_before |-> cache_file,
                              rows |-> out.rows, amounts |-> out.amounts,
                              result |-> out.result]
          /\ cache_file' = out.file
          /\ last_fetch' = [b \in Bases |-> IF b \in out.fetched THEN now
                                            ELSE last_fetch[b]]
          /\ lastCall' = NoCall
          /\ UNCHANGED <<now, lastRemoved, lastAverages, lastComparison, flowVars>>

\* compare_user_to_population, then the two rankings of its result
CompareCall ==
    /\ NoAnalyticsCallYet
    /\ \E user_spending \in Aggregates(UserTotals),
          population_avg \in Aggregates(PopulationTotals),
          order \in CategoryOrders, half_up \in BOOLEAN, limit \in 0..MaxLimit :
        \E comparison \in {compare_user_to_population(
                                user_spending, population_avg,
                                SelectSeq(order, LAMBDA c : c \in DOMAIN user_spending
                                                              \cup DOMAIN population_avg),
                                half_up)} :
          /\ lastComparison' =
                [called |-> TRUE, user_spending |-> user_spending,
                 population_avg |-> population_avg, comparison |-> comparison,
                 limit |-> limit,
                 over |-> get_top_overspending_categories(comparison, limit),
                 under |-> get_top_underspending_categories(comparison, limit)]
          /\ UNCHANGED <<convVars, lastRemoved, lastAverages, lastSpending, flowVars>>

NextAnalytics ==
    RemoveOutliersCall \/ PopulationAveragesCall \/ UserSpendingCall \/ CompareCall

SpecAnalytics == Init /\ [][NextAnalytics]_vars

(***************************************************************************)
(* Properties.  Vocabulary of the statements, written from their wording   *)
(***************************************************************************)
Participants == Range(transaction.split_with)
HeadCount == Len(transaction.split_with) + 1
StatedAmounts == transaction.split_amounts.val
HasStatedAmounts == transaction.split_amounts.some /\ DOMAIN StatedAmounts # {}
GstApplies == transaction.gst.some /\ transaction.gst.val > 0

\* HeadCount times the sum of the stated amounts with their GST shares added
ScaledItemTotal ==
    HeadCount * SumValues(StatedAmounts)
      + (IF GstApplies THEN Cardinality(DOMAIN StatedAmounts) * transaction.gst.val ELSE 0)

\* that sum is strictly greater than amount x 1.05
OverFivePercent == 100 * ScaledItemTotal > 105 * transaction.amount * HeadCount

\* every person of split_with and the owner are allocated amount / HeadCount
ProposesEqualSplit ==
    /\ DOMAIN proposed.split_display = Participants
    /\ \A n \in Participants : proposed.split_display[n] * HeadCount = transaction.amount
    /\ proposed.my_share * HeadCount = transaction.amount

\* C3: when split_amounts is non-empty and the participants' allocations with
\* GST added sum to strictly more than amount x 1.05, the review proposes the
\* equal split amount / (len(split_with) + 1) for every participant and the owner.
C3_ReconciliationFallback ==
    (split_review /\ HasStatedAmounts /\ OverFivePercent) => ProposesEqualSplit

\* amount=50, split_amounts {48, 48}: three equal shares of 50/3
C3_Witness ==
    /\ split_review
    /\ transaction = Tx(50 * Dollar, TRUE, <<N_Al, N_Bob>>,
                        Some(Dict2(N_Al, 48 * Dollar, N_Bob, 48 * Dollar)), NoneNum)
    /\ OverFivePercent
    /\ 3 * proposed.split_display[N_Al] = 50 * Dollar
    /\ 3 * proposed.split_display[N_Bob] = 50 * Dollar
    /\ 3 * proposed.my_share = 50 * Dollar

\* C4: with non-empty split_amounts, each named participant's allocation is
\* the split_amounts value plus gst / (len(split_with) + 1) when gst is
\* present and positive, and the split_amounts value unchanged otherwise;
\* these are the allocations the review proposes unless the 5% check
\* discards them.
C4_GstApportionment ==
    (split_review /\ HasStatedAmounts) =>
        /\ DOMAIN proposed.itemized = DOMAIN StatedAmounts
        /\ \A n \in DOMAIN StatedAmounts :
              IF GstApplies
              THEN (proposed.itemized[n] - StatedAmounts[n]) * HeadCount = transaction.gst.val
              ELSE proposed.itemized[n] = StatedAmounts[n]
        /\ ~OverFivePercent => proposed.split_display = proposed.itemized

\* amount=100, split_amounts {30}, gst=10: 35 for the participant, 65 for
\* the owner, total 100, valid
C4_Witness ==
    /\ split_review
    /\ transaction = Tx(100 * Dollar, TRUE, <<N_Al>>,
                        Some(Dict1(N_Al, 30 * Dollar)), Some(10 * Dollar))
    /\ proposed.split_display[N_Al] = 35 * Dollar
    /\ proposed.my_share = 65 * Dollar
    /\ edited_amounts[N_Al] + user_amount = 100 * Dollar
    /\ split_valid

\* C5: in an itemized split that is not discarded, the owner's share is
\* amount minus the sum of the participants' allocations when that is at
\* least 0.01, and exactly 0.01 otherwise; it is never zero or negative.
C5_OwnerShareFloor ==
    (split_review /\ HasStatedAmounts /\ ~OverFivePercent) =>
        LET rest == transaction.amount - SumValues(proposed.split_display)
        IN  /\ rest >= Cent => proposed.my_share = rest
            /\ rest < Cent => proposed.my_share = Cent
            /\ proposed.my_share > 0

\* the floor applies: the allocations use up the whole amount or more
C5_Witness ==
    /\ split_review /\ HasStatedAmounts /\ ~OverFivePercent
    /\ transaction.amount - SumValues(proposed.split_display) < 0
    /\ proposed.my_share = Cent

\* C6: when split_amounts is absent or empty, every person of split_with and
\* the owner are allocated amount / (len(split_with) + 1); nobody is
\* allocated zero.
C6_EqualSplit ==
    (split_review /\ ~HasStatedAmounts) =>
        /\ ProposesEqualSplit
        /\ \A n \in Participants : proposed.split_display[n] > 0

\* amount=90 split with two people and no split_amounts: 30 each
C6_Witness ==
    /\ split_review
    /\ transaction = Tx(90 * Dollar, TRUE, <<N_Al, N_Bob>>, NoneMap, NoneNum)
    /\ proposed.split_display[N_Al] = 30 * Dollar
    /\ proposed.split_display[N_Bob] = 30 * Dollar
    /\ proposed.my_share = 30 * Dollar

(***************************************************************************)
(* Properties of Save                                                      *)
(***************************************************************************)
\* total_split of the allocation on screen differs from the amount by 0.01
\* or more
AllocationUnderReviewFails ==
    /\ split_review
    /\ Abs(SumValues(edited_amounts) + user_amount - transaction.amount) >= Cent

\* C1: no step, Save included, writes a transaction, friend or debt row
\* while the allocation under review has a total_split that differs from
\* the transaction amount by 0.01 or more.
C1_InvalidNeverPersisted ==
    [][AllocationUnderReviewFails =>
          /\ transactions' = transactions
          /\ friends' = friends
          /\ debts' = debts]_vars

\* Save was pressed on an allocation that an edit had made invalid, and
\* was refused
C1_Witness ==
    /\ lastOp = "save"
    /\ lastSave.outcome = "blocked"
    /\ AllocationUnderReviewFails
    /\ edited_amounts # proposed.split_display
    /\ transactions = <<>> /\ debts = <<>>

RECURSIVE SumAmounts(_)
SumAmounts(rows) == IF rows = <<>> THEN 0 ELSE rows[1].amount + SumAmounts(Tail(rows))

\* the last step was a Save of a reviewed split that wrote every row
SavedReviewedSplit ==
    /\ lastOp = "save"
    /\ lastSave.outcome = "saved"
    /\ lastSave.review
    /\ lastSave.tx.is_split

\* C2: for a persisted split, the amounts of its Debts plus the owner's
\* share equal the amount stored in the transaction's row, within 0.01.
C2_DebtsSumToStoredAmount ==
    SavedReviewedSplit =>
        Abs(SumAmounts(lastSave.debt_rows) + lastSave.owner
              - transactions[Len(transactions)].amount) < Cent

\* the friend a participant was resolved to in the review
ResolvedName(n) == IF lastSave.selects[n].add THEN n ELSE lastSave.selects[n].name

\* C7: a successful Save of a reconciled split appends exactly one Debt per
\* participant of split_with, in order, each with the owner's user id, the
\* id of the Friend the participant was resolved to, the amount last shown
\* for the participant, the description "Split <merchant> bill" and
\* is_paid = false.
C7_OneDebtPerParticipant ==
    SavedReviewedSplit =>
        LET sw == lastSave.tx.split_with
            rows == lastSave.debt_rows
        IN  /\ Len(rows) = Len(sw)
            /\ Len(debts) >= Len(rows)
            /\ SubSeq(debts, Len(debts) - Len(rows) + 1, Len(debts)) = rows
            /\ \A i \in DOMAIN sw :
                  /\ rows[i].user_id = DEMO_USER_ID
                  /\ rows[i].amount = lastSave.shares[sw[i]]
                  /\ rows[i].description
                        = <<"Split", transactions[Len(transactions)].merchant, "bill">>
                  /\ rows[i].is_paid = FALSE
                  /\ \E j \in DOMAIN friends :
                        /\ friends[j].id = rows[i].friend_id
                        /\ friends[j].user_id = DEMO_USER_ID
                        /\ friends[j].name = ResolvedName(sw[i])

\* two participants saved: one resolved to an existing friend, one to a
\* Friend row created by the Save
C7_Witness ==
    /\ SavedReviewedSplit
    /\ Len(lastSave.debt_rows) = 2
    /\ Len(lastSave.friend_rows) = 1
    /\ lastSave.debt_rows[1].friend_id # lastSave.debt_rows[2].friend_id

\* C8: when the Friend or Debt write of one participant fails, the writes of
\* the remaining participants are still attempted: every participant but
\* the failing one has a Debt.
C8_FailureScopedToOneItem ==
    (/\ lastOp = "save"
     /\ lastSave.outcome = "error"
     /\ lastSave.review
     /\ lastSave.tx_rows # <<>>)
        => Len(lastSave.debt_rows) >= Len(lastSave.tx.split_with) - 1

\* the user's Friend records when Save was pressed
OwnFriendsBefore ==
    {lastSave.friends_before[i] : i \in {j \in DOMAIN lastSave.friends_before :
                                           lastSave.friends_before[j].user_id = DEMO_USER_ID}}

\* a name matches a Friend's name case-insensitively or by similarity
NameMatches(n, friend_name) ==
    \/ Lower(n) = Lower(friend_name)
    \/ RatioAtLeastCutoff(friend_name, n)

\* the friends were fetched and the user left every suggestion as offered
SuggestionsKept ==
    /\ DOMAIN lastSave.existing = {f.name : f \in OwnFriendsBefore}
    /\ \A n \in Range(lastSave.tx.split_with) :
          lastSave.selects[n] = DefaultOption(n, DOMAIN lastSave.existing)

\* C9: a participant whose name matches one of the user's Friend records is
\* resolved to one of the matching Friends and no Friend row is created for
\* them; Friend rows are created only for participants with no match.
C9_MatchReusesFriend ==
    (SavedReviewedSplit /\ SuggestionsKept) =>
        LET sw == lastSave.tx.split_with
            matched(n) == {f \in OwnFriendsBefore : NameMatches(n, f.name)}
        IN  /\ \A i \in DOMAIN sw :
                  matched(sw[i]) # {} =>
                      lastSave.debt_rows[i].friend_id \in {f.id : f \in matched(sw[i])}
            /\ \A k \in DOMAIN lastSave.friend_rows :
                  \E i \in DOMAIN sw :
                      /\ matched(sw[i]) = {}
                      /\ lastSave.friend_rows[k].name = sw[i]
                      /\ lastSave.friend_rows[k].user_id = DEMO_USER_ID

\* C10: a candidate whose split review is rendered with is_split = true has
\* a non-empty split_with, whichever path produced it.
C10_SplitReviewHasParticipants ==
    split_review =>
        /\ parsed_transaction.some
        /\ transaction.is_split
        /\ transaction.split_with # <<>>

\* the review of a candidate whose is_split and split_with were set by the
\* receipt post-processing, not by the language model
C10_Witness ==
    /\ split_review
    /\ lastOp = "analyze_receipt"
    /\ transaction.is_split
    /\ \A llm \in LLMOutputs : llm.is_split => llm.split_with # transaction.split_with

(***************************************************************************)
(* Properties of the debts ledger and of the candidate's lifecycle         *)
(***************************************************************************)
\* C11: every Debt row written, by the save of a split or by the "Split a
\* Bill" form, has amount > 0.
C11_DebtAmountsPositive == \A i \in DOMAIN debts : debts[i].amount > 0

\* C12: no step deletes a Debt or changes its owner, friend, amount or
\* description; the paid flag changes only in a mark-paid step, and only
\* from unpaid to paid.
C12_DebtsOnlyMarkedPaid ==
    [][/\ Len(debts') >= Len(debts)
       /\ \A i \in DOMAIN debts :
             /\ debts'[i].user_id = debts[i].user_id
             /\ debts'[i].friend_id = debts[i].friend_id
             /\ debts'[i].amount = debts[i].amount
             /\ debts'[i].description = debts[i].description
             /\ debts[i].is_paid => debts'[i].is_paid
             /\ debts'[i].is_paid # debts[i].is_paid => lastOp' = "mark_paid"]_vars

\* a debt written by the save of a split was marked paid while a debt of
\* the "Split a Bill" form is still open
C12_Witness ==
    /\ lastOp = "mark_paid"
    /\ transactions # <<>>
    /\ \E i, j \in DOMAIN debts :
          /\ debts[i].is_paid
          /\ debts[i].description[1] = "Split"
          /\ ~debts[j].is_paid
          /\ debts[j].description = <<"Lunch">>

\* the step is a completed Save or a Cancel
EndsReview(op, save) == op = "cancel" \/ (op = "save" /\ save.outcome = "saved")

CallSameCurrency == Lower(lastCall.from) = Lower(lastCall.to)

\* the base currency of the last call
CallBase == Upper(lastCall.from)

\* the cache file held a table for the call's base (of whatever age)
CachedForBase == lastCall.file_before.some /\ lastCall.file_before.table.base = CallBase

\* C14: convert(amount, C, C), C compared case-insensitively, returns the
\* amount itself, reads and writes no cache and contacts no rate source.
C14_SameCurrencyIdentity ==
    (lastCall.called /\ CallSameCurrency) =>
        /\ lastCall.result = Some(lastCall.amount)
        /\ ~lastCall.cache_read
        /\ ~lastCall.contacted
        /\ cache_file = lastCall.file_before

\* EUR to eur, with a table of another base in the cache file
C14_Witness ==
    /\ lastCall.called
    /\ lastCall.from = C_EUR /\ lastCall.to = C_eur
    /\ lastCall.result = Some(2 * RateUnit)
    /\ cache_file.some /\ cache_file.table.base = C_USD

\* C15: a conversion from base B contacts the rate source only if no table
\* for B was fetched successfully within the last 24 hours.
C15_CacheKeyedByBase ==
    (lastCall.called /\ lastCall.contacted) =>
        \/ lastCall.fetch_before = -1
        \/ lastCall.time - lastCall.fetch_before >= CACHE_DURATION

\* C16: when the fetch for base B fails and the cache file holds a table
\* for B, however old, the conversion uses that table's rate.
C16_FallbackToCachedTable ==
    (/\ lastCall.called /\ ~CallSameCurrency
     /\ lastCall.contacted /\ lastCall.resp = "error"
     /\ CachedForBase
     /\ Get(lastCall.file_before.table.rates, Upper(lastCall.to), 0) # 0)
        => lastCall.result
             = Some((lastCall.amount
                       * lastCall.file_before.table.rates[Upper(lastCall.to)]) \div RateUnit)

\* C17: a conversion between different currencies returns no value when
\* the fetch fails and no table for `from` is cached, and when the table
\* for `from` (cached and valid, or just fetched) has no usable rate for `to`.
C17_FailsWithoutRate ==
    (lastCall.called /\ ~CallSameCurrency) =>
        /\ (lastCall.contacted /\ lastCall.resp # "ok" /\ ~CachedForBase)
              => ~lastCall.result.some
        /\ (~lastCall.contacted
              /\ Get(lastCall.file_before.table.rates, Upper(lastCall.to), 0) = 0)
              => ~lastCall.result.some
        /\ (lastCall.contacted /\ lastCall.resp = "ok"
              /\ Get(SourceRates(CallBase), Upper(lastCall.to), 0) = 0)
              => ~lastCall.result.some

(***************************************************************************)
(* Properties of the spending analytics                                    *)
(***************************************************************************)
\* the value at (0-based) position k of the data in ascending order, found
\* by counting the values below it
Ranked(data, k) ==
    CHOOSE v \in Range(data) :
        /\ Cardinality({i \in DOMAIN data : data[i] < v}) <= k
        /\ k < Cardinality({i \in DOMAIN data : data[i] <= v})

\* v lies within [Q1 - 1.5 IQR, Q3 + 1.5 IQR] of the data, bounds included
InsideIQR(v, data) ==
    LET Q1 == Ranked(data, Len(data) \div 4)
        Q3 == Ranked(data, (3 * Len(data)) \div 4)
    IN  /\ 2 * Q1 - 3 * (Q3 - Q1) <= 2 * v
        /\ 2 * v <= 2 * Q3 + 3 * (Q3 - Q1)

CountedRows ==
    SelectSeq(lastAverages.table,
              LAMBDA t : /\ t.age <= time_period_days
                         /\ (lastAverages.exclude_user_id = NoUser
                               \/ t.user_id # lastAverages.exclude_user_id))

\* the users contributing to a category, and the users having it at all
Contributors(c) == {t.user_id : t \in {r \in Range(CountedRows) : r.category = c}}
WindowUsers(c) ==
    {t.user_id : t \in {r \in Range(lastAverages.table) :
                           r.category = c /\ r.age <= time_period_days}}

ReportedCategories == DOMAIN lastAverages.result

\* C19: the population averages leave out every category with fewer than 5
\* contributing users, and report a category only if at least 5 distinct
\* users have transactions in it; 4 users in Travel and 6 in Food give
\* Food only.
C19_MinimumUsers ==
    lastAverages.called =>
        /\ \A c \in {"Food", "Travel"} :
              /\ Cardinality(Contributors(c)) < 5 => c \notin ReportedCategories
              /\ c \in ReportedCategories => Cardinality(WindowUsers(c)) >= 5
        /\ (Cardinality(Contributors("Travel")) = 4 /\ Cardinality(Contributors("Food")) = 6)
              => ReportedCategories = {"Food"}

C19_Witness ==
    /\ lastAverages.called
    /\ Cardinality(Contributors("Travel")) = 4
    /\ Cardinality(Contributors("Food")) = 6
    /\ ReportedCategories = {"Food"}

\* the members of a set, in some order
RECURSIVE Listed(_)
Listed(S) ==
    IF S = {} THEN <<>>
    ELSE LET x == CHOOSE y \in S : TRUE IN <<x>> \o Listed(S \ {x})

\* a contributing user's total in a category
ContributedTotal(u, c) ==
    SumOver(lastAverages.amounts,
            {i \in DOMAIN CountedRows :
                CountedRows[i].user_id = u /\ CountedRows[i].category = c})

\* the per-user totals of a category, outliers removed
CleanedTotals(c) ==
    remove_outliers([k \in DOMAIN Listed(Contributors(c)) |->
                        ContributedTotal(Listed(Contributors(c))[k], c)])

WroteSplitRows == lastOp = "save" /\ (lastSave.debt_rows # <<>> \/ lastSave.friend_rows # <<>>)

\* C28: the Friend and Debt rows a Save writes belong to the transaction
\* being saved: there is at most one debt per name of its split_with, each
\* with the allocation shown for that name in this transaction's review,
\* and a transaction without participants gets no Friend and no Debt row.
C28_RowsBelongToSavedTransaction ==
    WroteSplitRows =>
        /\ lastSave.tx.split_with # <<>>
        /\ lastSave.review
        /\ Len(lastSave.debt_rows) <= Len(lastSave.tx.split_with)
        /\ \A i \in DOMAIN lastSave.debt_rows :
              lastSave.debt_rows[i].amount = lastSave.shares[lastSave.tx.split_with[i]]

\* the allocations the review proposes for the people of split_with (0 for
\* a person the resolver has no allocation for) and for the owner, added up
ProposedTotal ==
    SumOver([n \in Participants |-> Get(proposed.split_display, n, 0)], Participants)
        + proposed.my_share

\* the proposal as it stands, unedited, passes the gate of the 1-cent check
ProposalPassesGate ==
    /\ split_valid
    /\ Abs(ProposedTotal - transaction.amount) < Cent

\* the resolver took the equal-split path
EqualPathTaken == ~HasStatedAmounts \/ OverFivePercent

\* C29: whenever the resolver takes the equal-split path (split_amounts
\* absent or empty, or the reconciliation fallback), the unedited proposal
\* passes the validation gate: the shares sum to the amount within 0.01.
C29_EqualSplitPassesGate ==
    (split_review /\ EqualPathTaken) => ProposalPassesGate

\* the fallback of amount 50 with {48, 48}, and its review marked valid
C29_Witness ==
    /\ split_review
    /\ HasStatedAmounts /\ OverFivePercent
    /\ transaction.amount = 50 * Dollar
    /\ Len(transaction.split_with) = 2
    /\ ProposedTotal = 50 * Dollar
    /\ split_valid

\* C30: whenever explicit split_amounts are kept by the 5% check, the
\* unedited proposal passes the validation gate.
C30_KeptAmountsPassGate ==
    (split_review /\ HasStatedAmounts /\ ~OverFivePercent) => ProposalPassesGate

C27_RateFromOwnBase ==
    (lastCall.called /\ ~CallSameCurrency /\ lastCall.result.some) =>
        /\ (lastCall.contacted /\ lastCall.resp = "ok") \/ CachedForBase
        /\ lastCall.result.val
             = (lastCall.amount * Get(SourceRates(CallBase), Upper(lastCall.to), 0))
                  \div RateUnit

(***************************************************************************)
(* Properties of the user's aggregate, the comparison and the rankings     *)
(***************************************************************************)
\* the given user's rows of the last call's table that are in the window
OwnRows ==
    SelectSeq(lastSpending.table,
              LAMBDA t : t.user_id = lastSpending.user_id /\ t.age <= time_period_days)

\* the label a row is to be counted under
Label(t) == IF t.category \in {NULL, MISSING} THEN "Other" ELSE t.category

\* C21: the user's aggregate holds, for each category, the sum of the
\* native-currency amounts of exactly the user's rows in the window, a row
\* whose category is missing or null being counted under "Other".
C21_UserTotalsByCategory ==
    lastSpending.called =>
        /\ Len(lastSpending.amounts) = Len(OwnRows)
        /\ DOMAIN lastSpending.result = {Label(OwnRows[i]) : i \in DOMAIN OwnRows}
        /\ \A c \in DOMAIN lastSpending.result :
              lastSpending.result[c]
                = SumOver(lastSpending.amounts,
                          {i \in DOMAIN OwnRows : Label(OwnRows[i]) = c})

\* no rate could be had during the call: no table in the cache file and no
\* answer from the rate source
NoRateDuring(call) == ~call.file_before.some /\ call.resp # "ok"

\* C22: a row whose conversion is unavailable is aggregated at its
\* unconverted amount, and no row of the call is left out, in the user's
\* aggregate and in the population's.
C22_UnconvertedWhenUnavailable ==
    /\ lastSpending.called =>
          /\ Len(lastSpending.amounts) = Len(OwnRows)
          /\ \A i \in DOMAIN OwnRows :
                (OwnRows[i].currency # C_SGD /\ NoRateDuring(lastSpending))
                    => lastSpending.amounts[i] = OwnRows[i].amount
          /\ SumValues(lastSpending.result) = SumValues(lastSpending.amounts)
    /\ lastAverages.called =>
          /\ lastAverages.rows = CountedRows
          /\ Len(lastAverages.amounts) = Len(CountedRows)
          /\ \A i \in DOMAIN CountedRows :
                (CountedRows[i].currency # C_SGD /\ NoRateDuring(lastAverages))
                    => lastAverages.amounts[i] = CountedRows[i].amount

\* u1's USD row of 2.00 with the rate source down: Food is 10.00 + 2.00
C22_Witness ==
    /\ lastSpending.called
    /\ lastSpending.user_id = "u1"
    /\ NoRateDuring(lastSpending)
    /\ \E i \in DOMAIN OwnRows : OwnRows[i].currency = C_USD
    /\ lastSpending.result["Food"] = 1200

ComparedCategories == {e.category : e \in Range(lastComparison.comparison)}

\* C23: the comparison has an entry for a category exactly when the
\* population aggregate has the category; a category only the user has is
\* skipped, and one the user lacks is compared with a user amount of 0.
C23_EntriesFollowPopulation ==
    lastComparison.called =>
        /\ ComparedCategories = DOMAIN lastComparison.population_avg
        /\ \A e \in Range(lastComparison.comparison) :
              e.category \notin DOMAIN lastComparison.user_spending
                  => e.dollar = 0 - lastComparison.population_avg[e.category]

\* the amounts an entry compares
UserAmount(e) == Get(lastComparison.user_spending, e.category, 0)
PopulationAmount(e) == lastComparison.population_avg[e.category]

\* C24: for every compared category dollar_diff is user - population (to
\* the cent) and pct_diff is dollar_diff / population x 100 rounded to one
\* decimal; a positive value means the user spends more than the
\* population; {Food: 200} against {Food: 100} gives (100.0, 100.0).
C24_Differences ==
    lastComparison.called =>
        /\ \A e \in Range(lastComparison.comparison) :
              /\ e.dollar = UserAmount(e) - PopulationAmount(e)
              /\ 2 * Abs(PopulationAmount(e) * e.pct - 1000 * e.dollar)
                    <= PopulationAmount(e)
              /\ e.pct > 0 => UserAmount(e) > PopulationAmount(e)
              /\ e.pct < 0 => UserAmount(e) < PopulationAmount(e)
              /\ e.dollar > 0 <=> UserAmount(e) > PopulationAmount(e)
        /\ (/\ lastComparison.user_spending = [c \in {"Food"} |-> 20000]
            /\ lastComparison.population_avg = [c \in {"Food"} |-> 10000])
              => lastComparison.comparison
                   = <<[category |-> "Food", pct |-> 1000, dollar |-> 10000]>>

C24_Witness ==
    /\ lastComparison.called
    /\ lastComparison.user_spending = [c \in {"Food"} |-> 20000]
    /\ lastComparison.population_avg = [c \in {"Food"} |-> 10000]
    /\ lastComparison.comparison
         = <<[category |-> "Food", pct |-> 1000, dollar |-> 10000]>>

\* `top` ranks the entries of the comparison that satisfy Wanted, the
\* best first according to Before, and stops at the limit
Ranks(top, Wanted(_), Before(_, _)) ==
    LET wanted == {e \in Range(lastComparison.comparison) : Wanted(e)}
    IN  /\ Range(top) \subseteq wanted
        /\ \A i, j \in DOMAIN top : i # j => top[i] # top[j]
        /\ Len(top) = IF Cardinality(wanted) < lastComparison.limit
                      THEN Cardinality(wanted) ELSE lastComparison.limit
        /\ \A i, j \in DOMAIN top : i < j => ~Before(top[j], top[i])
        /\ \A e \in wanted \ Range(top) : \A i \in DOMAIN top : ~Before(e, top[i])

\* C25: top_overspending returns exactly the entries with pct_diff > 0,
\* by pct_diff descending, cut to the limit; top_underspending those with
\* pct_diff < 0, ascending, cut to the limit; +50%, -20%, +10% with limit 2
\* give [+50%, +10%] for overspending.
C25_Rankings ==
    lastComparison.called =>
        /\ Ranks(lastComparison.over, LAMBDA e : e.pct > 0, LAMBDA a, b : a.pct > b.pct)
        /\ Ranks(lastComparison.under, LAMBDA e : e.pct < 0, LAMBDA a, b : a.pct < b.pct)
        /\ (lastComparison.limit = 2
              /\ {e.pct : e \in Range(lastComparison.comparison)} = {500, 0 - 200, 100}
              /\ Len(lastComparison.comparison) = 3)
              => <<lastComparison.over[1].pct, lastComparison.over[2].pct>> = <<500, 100>>

C25_Witness ==
    /\ lastComparison.called
    /\ lastComparison.limit = 2
    /\ Len(lastComparison.comparison) = 3
    /\ {e.pct : e \in Range(lastComparison.comparison)} = {500, 0 - 200, 100}
    /\ Len(lastComparison.over) = 2
    /\ lastComparison.over[1].pct = 500 /\ lastComparison.over[2].pct = 100
    /\ Len(lastComparison.under) = 1 /\ lastComparison.under[1].pct = 0 - 200

====
